---- MODULE Spec2Model ----
(***************************************************************************)
(* A model of the two programs of sdrtrunk-exfiltrator:                    *)
(*   zmq_audio_producer.py  (publishes test envelopes)                     *)
(*   zmq_audio_consumer.py  (receives, renders and optionally saves them)  *)
(* A run of Spec is a run of one of the two programs (variable program).   *)
(* SpecCodec exercises the audio text codec shared by the two: the         *)
(* producer's array-form encoding and the consumer's audio decode.         *)
(* Text is a sequence of one-character strings.                            *)
(***************************************************************************)
EXTENDS Integers, Sequences, FiniteSets, TLC

VARIABLES
    program,        \* which program runs: "consumer" or "producer"
    pc,             \* position in main(): "bind", "connect", "loop", "sleep", "recv", "close", "term", "exited"
    socket_open,    \* the zmq socket has not been closed
    context_open,   \* the zmq context has not been terminated
    why,            \* what made main() leave its try body
    verbose,        \* args.verbose
    save_audio,     \* args.save_audio (consumer)
    count,          \* args.count (producer)
    message_count,  \* producer: message_count
    sent,           \* producer: the envelopes published, in order
    audio_counter,  \* consumer: audio_counter
    msg,            \* consumer: the last message received
    out,            \* consumer: the lines printed while handling msg
    files,          \* consumer: the sound files written, in order
    hist,           \* consumer: per received message, what it was and what was done with it
    attempts,       \* number of bind / connect calls made
    rt_pc,          \* codec: "input", "encoded", "decoded"
    rt_bytes,       \* codec: the byte sequence B
    rt_text,        \* codec: the array-form text of B
    rt_result       \* codec: the outcome of decoding rt_text

mainVars == <<program, pc, socket_open, context_open, why, verbose, save_audio,
              count, message_count, sent, audio_counter, msg, out, files, hist,
              attempts>>
codecVars == <<rt_pc, rt_bytes, rt_text, rt_result>>
vars == <<program, pc, socket_open, context_open, why, verbose, save_audio,
          count, message_count, sent, audio_counter, msg, out, files, hist,
          attempts, rt_pc, rt_bytes, rt_text, rt_result>>

(***************************************************************************)
(* Bounds of the model.                                                    *)
(***************************************************************************)
\* messages one run of the consumer receives at most
MaxMsgs == 3
\* largest configured message count of the producer
MaxCount == 3
\* messages an unbounded producer (count = 0) is followed for
MaxPublish == 5
\* longest byte sequence of the codec round trip
MaxLen == 3

(***************************************************************************)
(* Text helpers.                                                           *)
(***************************************************************************)
Digits == <<"0", "1", "2", "3", "4", "5", "6", "7", "8", "9">>

IsDigit(c) == \E i \in 1..10 : Digits[i] = c

DigitVal(c) == (CHOOSE i \in 1..10 : Digits[i] = c) - 1

Whitespace == {" ", "\t", "\n", "\r"}

\* str(n) for a non-negative integer
RECURSIVE IntToText(_)
IntToText(n) ==
    IF n < 10 THEN <<Digits[n + 1]>>
    ELSE IntToText(n \div 10) \o <<Digits[(n % 10) + 1]>>

\* str(n) for an integer
SignedToText(n) == IF n < 0 THEN <<"-">> \o IntToText(0 - n) ELSE IntToText(n)

\* the value of a run of decimal digits
RECURSIVE TextToInt(_)
TextToInt(t) ==
    IF Len(t) = 0 THEN 0
    ELSE 10 * TextToInt(SubSeq(t, 1, Len(t) - 1)) + DigitVal(t[Len(t)])

\* str.strip() restricted to JSON whitespace
RECURSIVE StripLeft(_)
StripLeft(t) ==
    IF Len(t) > 0 /\ t[1] \in Whitespace THEN StripLeft(Tail(t)) ELSE t

RECURSIVE StripRight(_)
StripRight(t) ==
    IF Len(t) > 0 /\ t[Len(t)] \in Whitespace
    THEN StripRight(SubSeq(t, 1, Len(t) - 1)) ELSE t

Strip(t) == StripRight(StripLeft(t))

\* the pieces of t between commas
RECURSIVE SplitComma(_, _)
SplitComma(t, cur) ==
    IF Len(t) = 0 THEN <<cur>>
    ELSE IF t[1] = "," THEN <<cur>> \o SplitComma(Tail(t), <<>>)
    ELSE SplitComma(Tail(t), Append(cur, t[1]))

(***************************************************************************)
(* Producer: the array form of the audio bytes, str(list(audio_data)).     *)
(***************************************************************************)
RECURSIVE JoinBytes(_)
JoinBytes(B) ==
    IF Len(B) = 0 THEN <<>>
    ELSE IF Len(B) = 1 THEN SignedToText(B[1])
    ELSE SignedToText(B[1]) \o <<",", " ">> \o JoinBytes(Tail(B))

\* the array form as Java's Arrays.toString(byte[]) would print it: signed bytes
EncodeArraySigned(B) ==
    <<"[">> \o JoinBytes([i \in 1..Len(B) |-> IF B[i] > 127 THEN B[i] - 256 ELSE B[i]])
            \o <<"]">>

EncodeArray(B) == <<"[">> \o JoinBytes(B) \o <<"]">>

(***************************************************************************)
(* Consumer: the audio decode.  A decode result is                         *)
(*   [ok |-> TRUE, data |-> bytes, exc |-> "none"]  or                     *)
(*   [ok |-> FALSE, data |-> <<>>, exc |-> the exception raised].          *)
(***************************************************************************)
Decoded(B) == [ok |-> TRUE, data |-> B, exc |-> "none"]

Raised(e) == [ok |-> FALSE, data |-> <<>>, exc |-> e]

AllDigits(t) == \A i \in 1..Len(t) : IsDigit(t[i])

\* JSON's integer part: 0, or digits with no leading zero
IsIntPart(t) == Len(t) > 0 /\ AllDigits(t) /\ (Len(t) > 1 => t[1] # "0")

IsIntLiteral(t) ==
    IF Len(t) > 0 /\ t[1] = "-" THEN IsIntPart(Tail(t)) ELSE IsIntPart(t)

IntLiteralValue(t) ==
    IF t[1] = "-" THEN 0 - TextToInt(Tail(t)) ELSE TextToInt(t)

\* a JSON number with a fraction: json.loads makes it a float
IsFloatLiteral(t) ==
    \E i \in 2..(Len(t) - 1) :
        /\ t[i] = "."
        /\ IsIntLiteral(SubSeq(t, 1, i - 1))
        /\ AllDigits(SubSeq(t, i + 1, Len(t)))

\* one element of the array as json.loads reads it: an int (true and false are
\* ints to bytes()), a value bytes() rejects, or no JSON value
ElementOf(t) ==
    IF IsIntLiteral(t) THEN [kind |-> "int", v |-> IntLiteralValue(t)]
    ELSE IF t = <<"t", "r", "u", "e">> THEN [kind |-> "int", v |-> 1]
    ELSE IF t = <<"f", "a", "l", "s", "e">> THEN [kind |-> "int", v |-> 0]
    ELSE IF IsFloatLiteral(t) \/ t = <<"n", "u", "l", "l">> THEN [kind |-> "other", v |-> 0]
    ELSE [kind |-> "invalid", v |-> 0]

\* the elements of the array, one per piece between commas
ElementsOf(parts) == [i \in 1..Len(parts) |-> ElementOf(Strip(parts[i]))]

\* bytes(byte_values) over what json.loads returned for the elements
BytesOf(elems) ==
    IF \E i \in 1..Len(elems) : elems[i].kind = "invalid"
    THEN Raised("JSONDecodeError")
    ELSE IF \E i \in 1..Len(elems) : elems[i].kind = "other"
    THEN Raised("TypeError")
    ELSE IF \E i \in 1..Len(elems) : elems[i].v < 0 \/ elems[i].v > 255
    THEN Raised("ValueError")
    ELSE Decoded([i \in 1..Len(elems) |-> elems[i].v])

\* the text between the brackets: nothing but whitespace is the empty array
ParseInner(inner) ==
    IF Strip(inner) = <<>> THEN Decoded(<<>>)
    ELSE BytesOf(ElementsOf(SplitComma(inner, <<>>)))

\* bytes(json.loads(text)) for a text that starts with "[" and ends with "]"
ParseByteArray(text) == ParseInner(SubSeq(text, 2, Len(text) - 1))

B64Alphabet ==
    <<"A", "B", "C", "D", "E", "F", "G", "H", "I", "J", "K", "L", "M",
      "N", "O", "P", "Q", "R", "S", "T", "U", "V", "W", "X", "Y", "Z",
      "a", "b", "c", "d", "e", "f", "g", "h", "i", "j", "k", "l", "m",
      "n", "o", "p", "q", "r", "s", "t", "u", "v", "w", "x", "y", "z",
      "0", "1", "2", "3", "4", "5", "6", "7", "8", "9", "+", "/">>

IsB64(c) == \E i \in 1..64 : B64Alphabet[i] = c

B64Val(c) == (CHOOSE i \in 1..64 : B64Alphabet[i] = c) - 1

\* base64.b64decode(text), not validating: characters outside the alphabet are
\* skipped, a completed pad ends the input, a dangling group is an error
RECURSIVE B64Loop(_, _, _, _, _)
B64Loop(t, quad_pos, leftchar, pads, acc) ==
    IF Len(t) = 0
    THEN IF quad_pos # 0 THEN Raised("binascii.Error") ELSE Decoded(acc)
    ELSE IF t[1] = "="
    THEN IF quad_pos >= 2 /\ quad_pos + pads + 1 >= 4
         THEN Decoded(acc)
         ELSE B64Loop(Tail(t), quad_pos, leftchar,
                      IF quad_pos >= 2 THEN pads + 1 ELSE pads, acc)
    ELSE IF ~IsB64(t[1])
    THEN B64Loop(Tail(t), quad_pos, leftchar, pads, acc)
    ELSE LET ch == B64Val(t[1])
         IN  CASE quad_pos = 0 -> B64Loop(Tail(t), 1, ch, 0, acc)
               [] quad_pos = 1 ->
                    B64Loop(Tail(t), 2, ch % 16, 0,
                            Append(acc, leftchar * 4 + (ch \div 16)))
               [] quad_pos = 2 ->
                    B64Loop(Tail(t), 3, ch % 4, 0,
                            Append(acc, leftchar * 16 + (ch \div 4)))
               [] OTHER ->
                    B64Loop(Tail(t), 0, 0, 0, Append(acc, leftchar * 64 + ch))

B64Decode(text) == B64Loop(text, 0, 0, 0, <<>>)

StartsWith(text, c) == Len(text) > 0 /\ text[1] = c

EndsWith(text, c) == Len(text) > 0 /\ text[Len(text)] = c

\* the audio decode of the consumer: the array form when the text is bracketed,
\* base64 otherwise
DecodeAudio(text) ==
    IF StartsWith(text, "[") /\ EndsWith(text, "]")
    THEN ParseByteArray(text)
    ELSE B64Decode(text)

(***************************************************************************)
(* JSON values as the consumer sees them after json.loads.                 *)
(* A scalar is [t, s, n]: t is "absent" (no such key), "null", "int",      *)
(* "str", or "bigint" (an integer beyond the range datetime accepts).      *)
(***************************************************************************)
JAbsent == [t |-> "absent", s |-> "", n |-> 0]

JNull == [t |-> "null", s |-> "", n |-> 0]

JInt(i) == [t |-> "int", s |-> "", n |-> i]

JStr(x) == [t |-> "str", s |-> x, n |-> 0]

JBigInt == [t |-> "bigint", s |-> "", n |-> 0]

\* dict.get(key, default)
GetOr(v, default) == IF v.t = "absent" THEN default ELSE v

\* from / to: t is "absent", "null", "obj" (a record with id and alias, either
\* possibly absent) or "str" (a non-empty string where a record is expected)
Party(t, id, alias) == [t |-> t, id |-> id, alias |-> alias]

NoParty == Party("absent", JAbsent, JAbsent)

\* the audio field: t is "absent", "null", "str" (text holds the characters)
\* or "int" (n holds the number)
AudioText(text) == [t |-> "str", text |-> text, n |-> 0]

NoAudio == [t |-> "absent", text |-> <<>>, n |-> 0]

NullAudio == [t |-> "null", text |-> <<>>, n |-> 0]

IntAudio(i) == [t |-> "int", text |-> <<>>, n |-> i]

\* the metadata field: t is "absent", "null", "str" or "obj"
Metadata(t, protocol, frequency, timeslot, from, to, lcn) ==
    [t |-> t, protocol |-> protocol, frequency |-> frequency, timeslot |-> timeslot,
     from |-> from, to |-> to, lcn |-> lcn]

NoFields(t) == Metadata(t, JAbsent, JAbsent, JAbsent, NoParty, NoParty, JAbsent)

\* a message on the wire: form is "badutf8" (bytes that are not UTF-8),
\* "badjson" (text that is no JSON document), "nonobject" (a JSON document
\* that is not an object) or "object"
Wire(form, timestamp, metadata, audio) ==
    [form |-> form, timestamp |-> timestamp, metadata |-> metadata, audio |-> audio]

(***************************************************************************)
(* Consumer: one pass of the loop body over a received message.            *)
(***************************************************************************)
Line(k, a, b) == [k |-> k, a |-> a, b |-> b]

\* json.loads(message_bytes.decode('utf-8')), then the three message.get calls
ParseExc(m) ==
    CASE m.form = "badutf8" -> "UnicodeDecodeError"
      [] m.form = "badjson" -> "JSONDecodeError"
      [] m.form = "nonobject" -> "AttributeError"
      [] OTHER -> "none"

\* datetime.fromtimestamp(timestamp / 1000.0)
TimestampExc(ts) ==
    CASE ts.t = "int" -> "none"
      [] ts.t = "bigint" -> "ValueError"
      [] OTHER -> "TypeError"

\* x != 'Unknown'
NotUnknown(v) == ~(v.t = "str" /\ v.s = "Unknown")

\* bool(x) of a from / to value
PartyTruthy(p) ==
    \/ p.t = "str"
    \/ p.t = "obj" /\ (p.id.t # "absent" \/ p.alias.t # "absent")

\* the print of a From / To line
PartyLine(label, id, alias) ==
    IF NotUnknown(id) THEN <<Line(label, id, alias)>> ELSE <<>>

\* the From / To block: its lines, and the exception it ends with
PartyLines(label, p) ==
    IF ~PartyTruthy(p) THEN [lines |-> <<>>, exc |-> "none"]
    ELSE IF p.t # "obj" THEN [lines |-> <<>>, exc |-> "AttributeError"]
    ELSE [lines |-> PartyLine(label, GetOr(p.id, JStr("Unknown")),
                              GetOr(p.alias, JStr("No alias"))),
          exc |-> "none"]

\* the metadata lines of one envelope, in print order, and the exception that cut
\* them short
\* head prints that treat a frequency of 0 like any other value
HeadLinesZeroFrequency(protocol, frequency, timeslot) ==
       (IF NotUnknown(protocol) THEN <<Line("Protocol", protocol, JAbsent)>> ELSE <<>>)
    \o (IF NotUnknown(frequency) THEN <<Line("Frequency", frequency, JAbsent)>> ELSE <<>>)
    \o (IF NotUnknown(timeslot) THEN <<Line("Timeslot", timeslot, JAbsent)>> ELSE <<>>)

\* the Protocol, Frequency and Timeslot prints
HeadLines(protocol, frequency, timeslot) ==
       (IF NotUnknown(protocol) THEN <<Line("Protocol", protocol, JAbsent)>> ELSE <<>>)
    \o (IF NotUnknown(frequency) /\ ~(frequency.t = "int" /\ frequency.n = 0)
        THEN <<Line("Frequency", frequency, JAbsent)>> ELSE <<>>)
    \o (IF NotUnknown(timeslot) THEN <<Line("Timeslot", timeslot, JAbsent)>> ELSE <<>>)

\* an LCN print guarded by truthiness
LcnLinesTruthy(lcn) ==
    IF lcn.t \notin {"absent", "null"} /\ ~(lcn.t = "int" /\ lcn.n = 0)
    THEN <<Line("LCN", lcn, JAbsent)>> ELSE <<>>

\* the LCN print
LcnLines(lcn) ==
    IF lcn.t \notin {"absent", "null"} THEN <<Line("LCN", lcn, JAbsent)>> ELSE <<>>

\* the blocks in print order, cut short by the first exception
MetadataSequence(head, from, to, lcn) ==
    IF from.exc # "none" THEN [lines |-> head, exc |-> from.exc]
    ELSE IF to.exc # "none" THEN [lines |-> head \o from.lines, exc |-> to.exc]
    ELSE [lines |-> head \o from.lines \o to.lines \o lcn, exc |-> "none"]

\* the metadata lines of one envelope, in print order, and the exception that cut
\* them short
MetadataLines(md) ==
    IF md.t \notin {"absent", "obj"} THEN [lines |-> <<>>, exc |-> "AttributeError"]
    ELSE MetadataSequence(
             HeadLines(GetOr(md.protocol, JStr("Unknown")),
                       GetOr(md.frequency, JStr("Unknown")),
                       GetOr(md.timeslot, JStr("Unknown"))),
             PartyLines("From", md.from),
             PartyLines("To", md.to),
             LcnLines(md.lcn))

\* bool(audio_b64)
AudioTruthy(a) ==
    \/ a.t = "str" /\ Len(a.text) > 0
    \/ a.t = "int" /\ a.n # 0

\* a decode attempted whenever an audio text is present
DecodeWantedAlways(a, save) == AudioTruthy(a)

\* a decode attempted on any audio field, empty or not, when saving
DecodeWantedSaveOnly(a, save) == save

\* if audio_b64 and args.save_audio
DecodeWanted(a, save) == AudioTruthy(a) /\ save

\* the audio decode of the loop body, applied to the audio field
DecodeField(a) ==
    IF a.t # "str" THEN Raised("AttributeError") ELSE DecodeAudio(a.text)

SampleRate == 8000

\* a file name built from the timestamp alone
FileNameNoCounter(counter, timestamp) == [counter |-> 0, timestamp |-> timestamp.n]

\* f"dmr_audio_{audio_counter:04d}_{int(timestamp)}.wav"
FileName(counter, timestamp) == [counter |-> counter, timestamp |-> timestamp.n]

\* create_wave_file(audio_data, 8000, filename)
WaveFile(name, data) ==
    [name |-> name, nchannels |-> 1, sampwidth |-> 2, framerate |-> SampleRate,
     frames |-> data]

\* an inner handler that lets every audio exception through
AudioCaughtNone(exc) == FALSE

\* except Exception, around the audio decode
AudioCaught(exc) == exc # "KeyboardInterrupt"

\* a save that skips a payload of no bytes
SaveAudioSkipEmpty(name, data, counter) ==
    [lines |-> <<>>,
     files |-> IF Len(data) = 0 THEN <<>> ELSE <<WaveFile(name, data)>>,
     counter |-> counter,
     exc |-> "none"]

\* the decoded audio saved under name: the file and the print
SaveAudio(name, data, counter) ==
    [lines |-> <<Line("Saved", JInt(name.counter), JInt(Len(data)))>>,
     files |-> <<WaveFile(name, data)>>,
     counter |-> counter,
     exc |-> "none"]

\* an inner try that names the file with the number of the message
AudioOutcomeMessageNumber(r, timestamp, counter) ==
    IF r.ok THEN SaveAudio(FileName(counter, timestamp), r.data, counter)
    ELSE [lines |-> <<Line("AudioError", JStr(r.exc), JAbsent)>>,
          files |-> <<>>, counter |-> counter, exc |-> "none"]

\* the inner try over the decode result r: save it, or report what was raised
AudioOutcome(r, timestamp, counter) ==
    IF r.ok THEN SaveAudio(FileName(counter + 1, timestamp), r.data, counter + 1)
    ELSE IF AudioCaught(r.exc)
    THEN [lines |-> <<Line("AudioError", JStr(r.exc), JAbsent)>>,
          files |-> <<>>, counter |-> counter, exc |-> "none"]
    ELSE [lines |-> <<>>, files |-> <<>>, counter |-> counter, exc |-> r.exc]

\* the audio block: lines, files written, counter, and the exception leaving it
AudioBlock(a, timestamp, counter, save) ==
    IF ~DecodeWanted(a, save)
    THEN [lines |-> <<>>, files |-> <<>>, counter |-> counter, exc |-> "none"]
    ELSE AudioOutcome(DecodeField(a), timestamp, counter)

\* a rejection that still counts the message
RejectedCounted(counter, exc) ==
    [lines |-> <<>>, files |-> <<>>, counter |-> counter + 1, exc |-> exc]

\* nothing printed, nothing written: exc was raised before the header
Rejected(counter, exc) ==
    [lines |-> <<>>, files |-> <<>>, counter |-> counter, exc |-> exc]

\* the try body from the header on: counter is already incremented
Render(header, meta, audio, counter, verb) ==
    IF meta.exc # "none"
    THEN [lines |-> <<header>> \o meta.lines, files |-> <<>>,
          counter |-> counter, exc |-> meta.exc]
    ELSE IF audio.exc # "none"
    THEN [lines |-> <<header>> \o meta.lines \o audio.lines, files |-> audio.files,
          counter |-> audio.counter, exc |-> audio.exc]
    ELSE [lines |-> <<header>> \o meta.lines \o audio.lines
                    \o (IF verb THEN <<Line("RawMetadata", JAbsent, JAbsent)>> ELSE <<>>),
          files |-> audio.files, counter |-> audio.counter, exc |-> "none"]

\* the try body once the document is parsed and timestamp extracted
Extracted(m, timestamp, counter, save, verb) ==
    IF TimestampExc(timestamp) # "none"
    THEN Rejected(counter, TimestampExc(timestamp))
    ELSE Render(Line("Header", JInt(counter + 1), timestamp),
                MetadataLines(m.metadata),
                AudioBlock(m.audio, timestamp, counter + 1, save),
                counter + 1, verb)

\* the try body: parse to raw metadata
TryBody(m, counter, save, verb) ==
    IF ParseExc(m) # "none" THEN Rejected(counter, ParseExc(m))
    ELSE Extracted(m, GetOr(m.timestamp, JInt(0)), counter, save, verb)

\* no handler around the try body
InnerCaughtNone(exc) == FALSE

\* a handler pair that catches JSON errors only
InnerCaughtJsonOnly(exc) == exc = "JSONDecodeError"

\* except json.JSONDecodeError / except Exception, around the try body
InnerCaught(exc) == exc # "KeyboardInterrupt"

\* the two handlers of the try body, over its outcome r
Handlers(r) ==
    IF r.exc = "none" THEN r
    ELSE IF ~InnerCaught(r.exc) THEN r
    ELSE IF r.exc = "JSONDecodeError"
    THEN [r EXCEPT !.lines = @ \o <<Line("JsonError", JStr(r.exc), JAbsent)>>,
                   !.exc = "none"]
    ELSE [r EXCEPT !.lines = @ \o <<Line("MessageError", JStr(r.exc), JAbsent)>>,
                   !.exc = "none"]

\* the loop body: the try body and its two handlers.  exc is what leaves the loop.
HandleMessage(m, counter, save, verb) == Handlers(TryBody(m, counter, save, verb))

(***************************************************************************)
(* The envelopes of the model.                                             *)
(***************************************************************************)
\* the envelope of create_test_message, one choice of its random fields
FullMetadata ==
    Metadata("obj", JStr("DMR"), JInt(462700000), JInt(1),
             Party("obj", JInt(12345), JStr("Unit 1")),
             Party("obj", JInt(100), JStr("TG Fire")), JInt(5))

\* audio buffers the producer's generator may return
ProducerAudio == {<<0, 255>>, <<16, 39, 240, 216>>}

\* create_test_message: the envelope around audio bytes B stamped ts
TestMessage(B, ts) ==
    Wire("object", JInt(ts), FullMetadata, AudioText(EncodeArray(B)))

MetadataSamples ==
    { FullMetadata,
      NoFields("absent"),
      NoFields("null"),
      \* frequency 0, lcn 0, an empty from record, a to record without id
      Metadata("obj", JAbsent, JInt(0), JAbsent,
               Party("obj", JAbsent, JAbsent),
               Party("obj", JAbsent, JStr("TG Fire")), JInt(0)),
      \* the sentinel given explicitly, lcn null
      Metadata("obj", JStr("Unknown"), JStr("Unknown"), JStr("Unknown"),
               Party("obj", JStr("Unknown"), JAbsent), NoParty, JNull),
      \* from is a string, not a record
      [FullMetadata EXCEPT !.from = Party("str", JAbsent, JAbsent)],
      \* to is a string, not a record
      [FullMetadata EXCEPT !.to = Party("str", JAbsent, JAbsent)] }

AudioSamples ==
    { NoAudio, NullAudio, IntAudio(5),
      AudioText(<<>>),
      AudioText(EncodeArray(<<0, 255>>)),
      AudioText(<<"[", "1", ",", " ", "3", "0", "0", "]">>),
      AudioText(<<"[", "1", ",", " ", "x", "]">>),
      AudioText(<<"[", "1", ",", " ", "1", ".", "5", "]">>),
      AudioText(<<"[", "t", "r", "u", "e", "]">>),
      AudioText(<<"A", "Q", "I", "D">>),
      AudioText(<<"a", "b", "c">>),
      AudioText(<<"[", "1", ",", "2", ",", "3", ",", "4">>) }

\* timestamps datetime.fromtimestamp cannot take
BadTimestamps == {JNull, JStr("now"), JBigInt}

\* what the consumer may receive
Messages ==
    { Wire(f, JAbsent, NoFields("absent"), NoAudio) :
          f \in {"badutf8", "badjson", "nonobject"} }
    \cup { Wire("object", ts, FullMetadata, AudioText(EncodeArray(<<0, 255>>))) :
               ts \in BadTimestamps }
    \cup { Wire("object", JInt(1000), md, AudioText(EncodeArray(<<0, 255>>))) :
               md \in MetadataSamples }
    \cup { Wire("object", JInt(1000), FullMetadata, a) : a \in AudioSamples }
    \cup { Wire("object", JAbsent, NoFields("absent"), a) :
               a \in {NoAudio, AudioText(<<"[", "]">>), AudioText(<<"a", "b", "c">>)} }
    \cup { TestMessage(B, 1000) : B \in ProducerAudio }

NoMessage == Wire("none", JAbsent, NoFields("absent"), NoAudio)

(***************************************************************************)
(* What a received message is, from its content alone: the first statement *)
(* of the try body that cannot handle it, or the state of its audio.       *)
(***************************************************************************)
InputKind(m) ==
    CASE m.form = "badutf8" -> "undecodable"
      [] m.form = "badjson" -> "malformed"
      [] m.form = "nonobject" -> "nonobject"
      [] m.form = "object" /\ GetOr(m.timestamp, JInt(0)).t # "int" -> "bad_timestamp"
      [] m.form = "object" /\ GetOr(m.timestamp, JInt(0)).t = "int"
         /\ (m.metadata.t \notin {"absent", "obj"}
             \/ m.metadata.from.t = "str" \/ m.metadata.to.t = "str") -> "bad_metadata"
      [] OTHER ->
            IF ~AudioTruthy(m.audio) THEN "no_audio"
            ELSE IF m.audio.t = "str" /\ DecodeAudio(m.audio.text).ok THEN "good_audio"
            ELSE "bad_audio"

HasLine(lines, k) == \E i \in 1..Len(lines) : lines[i].k = k

\* the record kept of one pass of the loop body
Record(m, r) ==
    [kind |-> InputKind(m),
     hdr |-> IF HasLine(r.lines, "Header") THEN r.lines[1].a.n ELSE 0,
     saved |-> Len(r.files),
     err |-> IF HasLine(r.lines, "JsonError") THEN "json"
             ELSE IF HasLine(r.lines, "MessageError") THEN "message"
             ELSE IF HasLine(r.lines, "AudioError") THEN "audio"
             ELSE "none"]

(***************************************************************************)
(* main() of both programs.  Init is the state after the context and the   *)
(* socket have been created and before the try statement is entered.       *)
(***************************************************************************)
Init ==
    /\ program \in {"consumer", "producer"}
    /\ pc = (IF program = "consumer" THEN "connect" ELSE "bind")
    /\ socket_open = TRUE
    /\ context_open = TRUE
    /\ why = "none"
    /\ verbose \in BOOLEAN
    /\ save_audio \in (IF program = "consumer" THEN BOOLEAN ELSE {FALSE})
    /\ count \in (IF program = "producer" THEN 0..MaxCount ELSE {0})
    /\ message_count = 0
    /\ sent = <<>>
    /\ audio_counter = 0
    /\ msg = NoMessage
    /\ out = <<>>
    /\ files = <<>>
    /\ hist = <<>>
    /\ attempts = 0
    /\ rt_pc = "off"
    /\ rt_bytes = <<>>
    /\ rt_text = <<>>
    /\ rt_result = Raised("none")

\* an except clause that exits the process without reaching finally
LeaveNoFinally(reason) == pc' = "exited" /\ why' = reason

\* an outer except clause has run: finally is next
Leave(reason) == pc' = "close" /\ why' = reason

\* the outer handlers: except KeyboardInterrupt / zmq.Again / Exception
OuterHandler(exc) ==
    CASE exc = "KeyboardInterrupt" -> "interrupt"
      [] exc = "Again" -> "again"
      [] OTHER -> "error"

consumerOnly == <<count, message_count, sent>>

(***************************************************************************)
(* Consumer.                                                               *)
(***************************************************************************)
\* socket.connect, subscribe, audio_counter = 0
Connect ==
    /\ program = "consumer" /\ pc = "connect"
    /\ attempts' = attempts + 1
    /\ audio_counter' = 0
    /\ pc' = "recv"
    /\ UNCHANGED <<program, socket_open, context_open, why, verbose, save_audio,
                   msg, out, files, hist>>
    /\ UNCHANGED consumerOnly /\ UNCHANGED codecVars

\* a failed connect that is tried again
ConnectFailsRetry ==
    /\ program = "consumer" /\ pc = "connect"
    /\ attempts' = attempts + 1
    /\ UNCHANGED <<program, pc, why, socket_open, context_open, verbose, save_audio,
                   audio_counter, msg, out, files, hist>>
    /\ UNCHANGED consumerOnly /\ UNCHANGED codecVars

\* socket.connect raises
ConnectFails ==
    /\ program = "consumer" /\ pc = "connect"
    /\ attempts' = attempts + 1
    /\ Leave(OuterHandler("ZMQError"))
    /\ UNCHANGED <<program, socket_open, context_open, verbose, save_audio,
                   audio_counter, msg, out, files, hist>>
    /\ UNCHANGED consumerOnly /\ UNCHANGED codecVars

\* one pass of the while loop on message m, r being what the loop body did
Iteration(m, r) ==
    /\ msg' = m
    /\ out' = r.lines
    /\ audio_counter' = r.counter
    /\ files' = files \o r.files
    /\ hist' = Append(hist, Record(m, r))
    /\ IF r.exc = "none"
       THEN pc' = "recv" /\ why' = why
       ELSE Leave(OuterHandler(r.exc))

\* socket.recv returns m, and the loop body runs on it
RecvMessage ==
    /\ program = "consumer" /\ pc = "recv"
    /\ Len(hist) < MaxMsgs
    /\ \E m \in Messages :
           Iteration(m, HandleMessage(m, audio_counter, save_audio, verbose))
    /\ UNCHANGED <<program, socket_open, context_open, verbose, save_audio, attempts>>
    /\ UNCHANGED consumerOnly /\ UNCHANGED codecVars

\* socket.recv(zmq.NOBLOCK) finds no message: zmq.Again
RecvAgain ==
    /\ program = "consumer" /\ pc = "recv"
    /\ verbose
    /\ Leave(OuterHandler("Again"))
    /\ UNCHANGED <<program, socket_open, context_open, verbose, save_audio,
                   audio_counter, msg, out, files, hist, attempts>>
    /\ UNCHANGED consumerOnly /\ UNCHANGED codecVars

\* Ctrl+C while the consumer connects or waits in recv
ConsumerInterrupt ==
    /\ program = "consumer" /\ pc \in {"connect", "recv"}
    /\ Leave(OuterHandler("KeyboardInterrupt"))
    /\ UNCHANGED <<program, socket_open, context_open, verbose, save_audio,
                   audio_counter, msg, out, files, hist, attempts>>
    /\ UNCHANGED consumerOnly /\ UNCHANGED codecVars

\* finally: socket.close()
ConsumerClose ==
    /\ program = "consumer" /\ pc = "close"
    /\ socket_open' = FALSE
    /\ pc' = "term"
    /\ UNCHANGED <<program, context_open, why, verbose, save_audio,
                   audio_counter, msg, out, files, hist, attempts>>
    /\ UNCHANGED consumerOnly /\ UNCHANGED codecVars

\* finally: context.term(), and main returns
ConsumerTerm ==
    /\ program = "consumer" /\ pc = "term"
    /\ context_open' = FALSE
    /\ pc' = "exited"
    /\ UNCHANGED <<program, socket_open, why, verbose, save_audio,
                   audio_counter, msg, out, files, hist, attempts>>
    /\ UNCHANGED consumerOnly /\ UNCHANGED codecVars

(***************************************************************************)
(* Producer.                                                               *)
(***************************************************************************)
producerOnly == <<save_audio, audio_counter, msg, out, files, hist>>

\* a limit test that lets one message too many through
LimitReachedLate(limit, n) == limit > 0 /\ n > limit

\* if args.count > 0 and message_count >= args.count
LimitReached(limit, n) == limit > 0 /\ n >= limit

\* socket.bind, the start-up sleep, message_count = 0
Bind ==
    /\ program = "producer" /\ pc = "bind"
    /\ attempts' = attempts + 1
    /\ message_count' = 0
    /\ pc' = "loop"
    /\ UNCHANGED <<program, socket_open, context_open, why, verbose, count, sent>>
    /\ UNCHANGED producerOnly /\ UNCHANGED codecVars

\* socket.bind raises
BindFails ==
    /\ program = "producer" /\ pc = "bind"
    /\ attempts' = attempts + 1
    /\ Leave(OuterHandler("ZMQError"))
    /\ UNCHANGED <<program, socket_open, context_open, verbose, count,
                   message_count, sent>>
    /\ UNCHANGED producerOnly /\ UNCHANGED codecVars

\* the top of the loop with the limit reached: break
Break ==
    /\ program = "producer" /\ pc = "loop"
    /\ LimitReached(count, message_count)
    /\ Leave("break")
    /\ UNCHANGED <<program, socket_open, context_open, verbose, count,
                   message_count, sent, attempts>>
    /\ UNCHANGED producerOnly /\ UNCHANGED codecVars

\* one pass of the loop up to the sleep: build, serialize, send, count, print
Publish ==
    /\ program = "producer" /\ pc = "loop"
    /\ ~LimitReached(count, message_count)
    /\ message_count < MaxPublish
    /\ \E B \in ProducerAudio : sent' = Append(sent, TestMessage(B, 1000))
    /\ message_count' = message_count + 1
    /\ pc' = "sleep"
    /\ UNCHANGED <<program, socket_open, context_open, why, verbose, count, attempts>>
    /\ UNCHANGED producerOnly /\ UNCHANGED codecVars

\* socket.send_string raises
SendFails ==
    /\ program = "producer" /\ pc = "loop"
    /\ ~LimitReached(count, message_count)
    /\ Leave(OuterHandler("ZMQError"))
    /\ UNCHANGED <<program, socket_open, context_open, verbose, count,
                   message_count, sent, attempts>>
    /\ UNCHANGED producerOnly /\ UNCHANGED codecVars

\* time.sleep(args.interval) returns
Sleep ==
    /\ program = "producer" /\ pc = "sleep"
    /\ pc' = "loop"
    /\ UNCHANGED <<program, socket_open, context_open, why, verbose, count,
                   message_count, sent, attempts>>
    /\ UNCHANGED producerOnly /\ UNCHANGED codecVars

\* Ctrl+C while the producer binds, sends or sleeps
ProducerInterrupt ==
    /\ program = "producer" /\ pc \in {"bind", "loop", "sleep"}
    /\ Leave(OuterHandler("KeyboardInterrupt"))
    /\ UNCHANGED <<program, socket_open, context_open, verbose, count,
                   message_count, sent, attempts>>
    /\ UNCHANGED producerOnly /\ UNCHANGED codecVars

\* a finally block that terminates the context before closing the socket
ProducerCloseContextFirst ==
    /\ program = "producer" /\ pc = "close"
    /\ context_open' = FALSE
    /\ pc' = "term"
    /\ UNCHANGED <<program, socket_open, why, verbose, count,
                   message_count, sent, attempts>>
    /\ UNCHANGED producerOnly /\ UNCHANGED codecVars

\* finally: socket.close()
ProducerClose ==
    /\ program = "producer" /\ pc = "close"
    /\ socket_open' = FALSE
    /\ pc' = "term"
    /\ UNCHANGED <<program, context_open, why, verbose, count,
                   message_count, sent, attempts>>
    /\ UNCHANGED producerOnly /\ UNCHANGED codecVars

\* finally: context.term(), the last print, and main returns
ProducerTerm ==
    /\ program = "producer" /\ pc = "term"
    /\ context_open' = FALSE
    /\ pc' = "exited"
    /\ UNCHANGED <<program, socket_open, why, verbose, count,
                   message_count, sent, attempts>>
    /\ UNCHANGED producerOnly /\ UNCHANGED codecVars

Next ==
    \/ Connect \/ ConnectFails \/ RecvMessage \/ RecvAgain \/ ConsumerInterrupt
    \/ ConsumerClose \/ ConsumerTerm
    \/ Bind \/ BindFails \/ Break \/ Publish \/ SendFails \/ Sleep
    \/ ProducerInterrupt \/ ProducerClose \/ ProducerTerm

Spec == Init /\ [][Next]_vars

(***************************************************************************)
(* The codec round trip: a byte sequence B, the producer's array form of   *)
(* it, and the consumer's decode of that text.                             *)
(***************************************************************************)
\* byte values the round trip draws from: both ends of the range, one, two
\* and three digits, and the values around the sign bit
ByteSamples == {0, 7, 10, 127, 128, 255}

RECURSIVE SeqsUpTo(_, _)
SeqsUpTo(S, n) ==
    IF n = 0 THEN {<<>>}
    ELSE LET shorter == SeqsUpTo(S, n - 1)
         IN  shorter \cup {Append(q, x) : q \in {p \in shorter : Len(p) = n - 1}, x \in S}

InitCodec ==
    /\ program = "codec"
    /\ pc = "exited"
    /\ socket_open = FALSE
    /\ context_open = FALSE
    /\ why = "none"
    /\ verbose = FALSE
    /\ save_audio = FALSE
    /\ count = 0
    /\ message_count = 0
    /\ sent = <<>>
    /\ audio_counter = 0
    /\ msg = NoMessage
    /\ out = <<>>
    /\ files = <<>>
    /\ hist = <<>>
    /\ attempts = 0
    /\ rt_pc = "input"
    /\ rt_bytes \in SeqsUpTo(ByteSamples, MaxLen) \cup {<<b>> : b \in 0..255}
    /\ rt_text = <<>>
    /\ rt_result = Raised("none")

\* the producer side: "audio": str(list(audio_data))
Encode ==
    /\ rt_pc = "input"
    /\ rt_text' = EncodeArray(rt_bytes)
    /\ rt_pc' = "encoded"
    /\ UNCHANGED <<rt_bytes, rt_result>>
    /\ UNCHANGED mainVars

\* the consumer side: the audio decode of the received text
Decode ==
    /\ rt_pc = "encoded"
    /\ rt_result' = DecodeAudio(rt_text)
    /\ rt_pc' = "decoded"
    /\ UNCHANGED <<rt_bytes, rt_text>>
    /\ UNCHANGED mainVars

NextCodec == Encode \/ Decode

SpecCodec == InitCodec /\ [][NextCodec]_vars

(***************************************************************************)
(* Properties.                                                             *)
(***************************************************************************)
\* a step in which the consumer received a message and ran the loop body on it
RecvStep == program = "consumer" /\ Len(hist') = Len(hist) + 1

\* the kinds of message whose envelope is valid: parsed, stamped, well-formed metadata
ValidKinds == {"no_audio", "good_audio", "bad_audio"}

HasLineWith(lines, k, a) == \E i \in 1..Len(lines) : lines[i].k = k /\ lines[i].a = a

\* C1: once in its receive loop the consumer leaves it only on an operator
\* interrupt, whether it receives blocking or polls.
C1_LoopEndsOnlyOnInterrupt ==
    [][program = "consumer" /\ pc = "recv" /\ pc' # "recv" => why' = "interrupt"]_vars

\* C2: a message that is no parsable JSON is reported, changes nothing else and
\* leaves the consumer in its loop; every valid message received is rendered,
\* whatever was received before it.
C2_MalformedIsRecoverable ==
    /\ [][RecvStep /\ msg'.form = "badjson" =>
            /\ pc' = "recv" /\ why' = why
            /\ out' = <<Line("JsonError", JStr("JSONDecodeError"), JAbsent)>>
            /\ audio_counter' = audio_counter /\ files' = files]_vars
    /\ [](\A i \in 1..Len(hist) : hist[i].kind \in ValidKinds => hist[i].hdr > 0)

C2_Witness ==
    /\ Len(hist) = 3 /\ pc = "recv"
    /\ hist[1].kind \in ValidKinds /\ hist[1].hdr > 0
    /\ hist[2].kind = "malformed" /\ hist[2].err = "json"
    /\ hist[3].kind \in ValidKinds /\ hist[3].hdr > hist[1].hdr

\* C3: whatever is received, the loop body ends with the consumer back in the
\* loop, having printed the header line or a per-message error; absent fields
\* take their defaults (timestamp 0, no metadata line, no audio).
C3_DecodeIsTotal ==
    [][RecvStep =>
         /\ pc' = "recv" /\ why' = why
         /\ (\/ HasLine(out', "Header")
             \/ HasLine(out', "JsonError")
             \/ HasLine(out', "MessageError"))
         /\ (msg'.form = "object" /\ msg'.timestamp.t = "absent"
                => out'[1] = Line("Header", JInt(audio_counter + 1), JInt(0)))
         /\ (msg' = Wire("object", JAbsent, NoFields("absent"), NoAudio)
                => \A i \in 2..Len(out') : out'[i].k = "RawMetadata")]_vars

C3_Witness ==
    /\ Len(hist) = 3 /\ pc = "recv"
    /\ hist[1].kind = "undecodable" /\ hist[1].err = "message"
    /\ hist[2].kind = "bad_timestamp" /\ hist[2].err = "message"
    /\ msg = Wire("object", JAbsent, NoFields("absent"), NoAudio)
    /\ out = <<Line("Header", JInt(1), JInt(0))>>

\* C4: a program that has exited has closed its socket and terminated its
\* context, whatever made it leave its try body.
C4_ReleasedOnExit ==
    pc = "exited" /\ program \in {"consumer", "producer"}
        => ~socket_open /\ ~context_open

C4_Witness ==
    /\ program = "consumer" /\ pc = "exited" /\ why = "error"
    /\ ~socket_open /\ ~context_open

\* every metadata field of md that is present with a known value has its line
MetadataRendered(md, lines) ==
    /\ md.protocol.t # "absent" /\ NotUnknown(md.protocol)
          => HasLineWith(lines, "Protocol", md.protocol)
    /\ md.frequency.t # "absent" /\ NotUnknown(md.frequency)
       /\ ~(md.frequency.t = "int" /\ md.frequency.n = 0)
          => HasLineWith(lines, "Frequency", md.frequency)
    /\ md.timeslot.t # "absent" /\ NotUnknown(md.timeslot)
          => HasLineWith(lines, "Timeslot", md.timeslot)
    /\ md.from.t = "obj" /\ md.from.id.t # "absent" /\ NotUnknown(md.from.id)
          => HasLineWith(lines, "From", md.from.id)
    /\ md.to.t = "obj" /\ md.to.id.t # "absent" /\ NotUnknown(md.to.id)
          => HasLineWith(lines, "To", md.to.id)
    /\ md.lcn.t \notin {"absent", "null"} => HasLineWith(lines, "LCN", md.lcn)

\* C5: a valid envelope whose audio is missing or does not decode has all its
\* metadata lines rendered (the raw metadata too when verbose), and the consumer
\* stays in its loop.
C5_AudioFailureKeepsMetadata ==
    [][RecvStep /\ hist'[Len(hist')].kind \in {"no_audio", "bad_audio"} =>
         /\ pc' = "recv" /\ why' = why
         /\ HasLine(out', "Header")
         /\ MetadataRendered(msg'.metadata, out')
         /\ (verbose => HasLine(out', "RawMetadata"))
         /\ files' = files]_vars

C5_Witness ==
    /\ Len(hist) = 3 /\ pc = "recv" /\ save_audio /\ verbose
    /\ hist[1].kind = "no_audio"
    /\ hist[2].kind = "bad_audio" /\ hist[2].err = "audio"
    /\ hist[3].kind = "good_audio" /\ hist[3].saved = 1

C7_ProducerCount ==
    /\ [](program = "producer" =>
            /\ Len(sent) = message_count
            /\ (count > 0 => Len(sent) <= count)
            /\ (why = "break" => count > 0 /\ Len(sent) = count)
            /\ (pc = "loop" /\ count > 0 /\ Len(sent) = count => ENABLED Break))
    /\ [][program = "producer" /\ pc = "loop" /\ count > 0 /\ Len(sent) = count
            => why' \in {"break", "interrupt"}]_vars

C7_Witness ==
    /\ program = "producer" /\ count = 3 /\ Len(sent) = 3
    /\ why = "break" /\ pc = "exited"

C9_FileCounterIncreases ==
    \A i, j \in 1..Len(files) :
        i < j => /\ files[i].name.counter < files[j].name.counter
                 /\ files[i].name # files[j].name

C9_Witness ==
    /\ Len(files) = 3
    /\ files[1].name.timestamp = files[2].name.timestamp
    /\ files[1].name.counter < files[2].name.counter
    /\ files[2].name.counter < files[3].name.counter

\* C10: decoding the array form of a byte sequence gives the byte sequence back.
C10_ArrayRoundTrip ==
    rt_pc = "decoded" => rt_result.ok /\ rt_result.data = rt_bytes

C10_Witness ==
    /\ rt_pc = "decoded" /\ rt_bytes = <<255, 0, 128>>
    /\ rt_text = <<"[", "2", "5", "5", ",", " ", "0", ",", " ", "1", "2", "8", "]">>
    /\ rt_result.data = <<255, 0, 128>>

\* an entry of an array-form text that is no integer in 0..255
BadEntry(t) == ~IsIntLiteral(t) \/ IntLiteralValue(t) < 0 \/ IntLiteralValue(t) > 255

SomeBadEntry(parts) == \E i \in 1..Len(parts) : BadEntry(Strip(parts[i]))

\* an array-form text (bracketed, not empty inside) with such an entry
HasBadEntry(text) ==
    /\ StartsWith(text, "[") /\ EndsWith(text, "]")
    /\ Strip(SubSeq(text, 2, Len(text) - 1)) # <<>>
    /\ SomeBadEntry(SplitComma(SubSeq(text, 2, Len(text) - 1), <<>>))

\* C11: with audio-saving enabled, a valid envelope whose array-form audio has an
\* entry that is out of 0..255 or no integer gets an audio error and no file.
C11_BadEntryIsDecodeError ==
    \/ hist = <<>>
    \/ ~save_audio
    \/ hist[Len(hist)].kind \notin ValidKinds
    \/ msg.audio.t # "str"
    \/ ~HasBadEntry(msg.audio.text)
    \/ (hist[Len(hist)].err = "audio" /\ hist[Len(hist)].saved = 0)

\* C12: a failed bind or connect is not retried (one attempt at most, none
\* pending once past it); after an error exit path is taken nothing is received,
\* published or attempted any more, and the program can only close, terminate
\* and exit.
C12_TransportFailureIsFatal ==
    /\ [](/\ attempts <= 1
          /\ (pc \in {"connect", "bind"} => attempts = 0)
          /\ (program = "consumer" /\ why = "error"
                 => hist = <<>> /\ files = <<>> /\ pc \in {"close", "term", "exited"})
          /\ (program = "producer" /\ why = "error"
                 => Len(sent) = message_count /\ pc \in {"close", "term", "exited"})
          /\ (why = "error" /\ pc # "exited"
                 => ENABLED (ConsumerClose \/ ConsumerTerm \/ ProducerClose \/ ProducerTerm)))
    /\ [][why = "error" =>
             /\ hist' = hist /\ sent' = sent /\ attempts' = attempts
             /\ why' = why /\ pc' \in {"term", "exited"}]_vars

C12_Witness ==
    /\ program = "consumer" /\ why = "error" /\ attempts = 1
    /\ hist = <<>> /\ audio_counter = 0 /\ pc = "exited"

\* no line of md's absent fields, nor of a frequency of 0, is among lines
AbsentSuppressed(md, lines) ==
    /\ md.protocol.t = "absent" => ~HasLine(lines, "Protocol")
    /\ md.frequency.t = "absent" \/ md.frequency = JInt(0) => ~HasLine(lines, "Frequency")
    /\ md.timeslot.t = "absent" => ~HasLine(lines, "Timeslot")
    /\ md.from.t = "absent" => ~HasLine(lines, "From")
    /\ md.to.t = "absent" => ~HasLine(lines, "To")
    /\ md.lcn.t = "absent" => ~HasLine(lines, "LCN")

\* the last received message was a valid envelope
LastValid == hist # <<>> /\ hist[Len(hist)].kind \in ValidKinds

\* C13: in the rendering of a valid envelope a metadata field that is absent, or
\* a frequency of 0, has no line, and a field present with a known value has its
\* line; a frequency line is printed exactly when frequency is present, known
\* and not 0.
C13_UnknownFieldSuppression ==
    LastValid =>
        /\ AbsentSuppressed(msg.metadata, out)
        /\ MetadataRendered(msg.metadata, out)
        /\ (HasLine(out, "Frequency")
               <=> /\ msg.metadata.frequency.t # "absent"
                   /\ NotUnknown(msg.metadata.frequency)
                   /\ msg.metadata.frequency # JInt(0))

C13_Witness ==
    /\ LastValid
    /\ msg.metadata.frequency = JInt(0) /\ msg.metadata.protocol = JAbsent
    /\ HasLine(out, "Header") /\ Len(out) >= 2
    /\ ~HasLine(out, "Frequency") /\ ~HasLine(out, "Protocol")

\* C14: a valid envelope with lcn 0 is rendered with an LCN line showing 0, one
\* with lcn absent or null with no LCN line; the metadata lines of an envelope
\* with lcn 0 differ from those of the same envelope with lcn absent or null.
C14_LcnZeroIsNotAbsent ==
    LastValid =>
        /\ (msg.metadata.lcn = JInt(0) => HasLineWith(out, "LCN", JInt(0)))
        /\ (msg.metadata.lcn.t \in {"absent", "null"} => ~HasLine(out, "LCN"))
        /\ \A none \in {JAbsent, JNull} :
              MetadataLines([msg.metadata EXCEPT !.lcn = JInt(0)]).lines
                 # MetadataLines([msg.metadata EXCEPT !.lcn = none]).lines

C14_Witness ==
    /\ Len(hist) = 2
    /\ hist[1].kind \in ValidKinds /\ hist[2].kind \in ValidKinds
    /\ msg.metadata.lcn = JInt(0) /\ HasLineWith(out, "LCN", JInt(0))

\* how many of the first n received messages had their header rendered
RenderedUpTo(n) == Cardinality({j \in 1..n : hist[j].hdr > 0})

\* how many of the first n received messages were saved
SavedUpTo(n) == Cardinality({j \in 1..n : hist[j].saved = 1})

NoDecodeTrace(lines) == ~HasLine(lines, "Saved") /\ ~HasLine(lines, "AudioError")

RejectedKinds == {"undecodable", "malformed", "nonobject", "bad_timestamp"}

\* C17: a message rejected before rendering (undecodable bytes, unparsable JSON,
\* a non-object document, an unconvertible timestamp) prints its error and no
\* header, leaves the counter unchanged and writes no file; the counter changes
\* only in a receive whose header line is rendered.
C17_RejectedLeavesCounter ==
    /\ [][RecvStep /\ hist'[Len(hist')].kind \in RejectedKinds =>
            /\ audio_counter' = audio_counter /\ files' = files
            /\ ~HasLine(out', "Header")
            /\ hist'[Len(hist')].err \in {"json", "message"}
            /\ pc' = "recv"]_vars
    /\ [][audio_counter' # audio_counter => RecvStep /\ HasLine(out', "Header")]_vars

C17_Witness ==
    /\ Len(hist) = 3 /\ audio_counter = 2 /\ Len(files) = 1
    /\ hist[1].kind = "good_audio" /\ hist[1].saved = 1
    /\ hist[2].kind = "bad_timestamp" /\ hist[2].hdr = 0
    /\ hist[3].kind = "nonobject" /\ hist[3].err = "message"

\* C18: in both programs the context is terminated only after the socket is
\* closed, the socket is closed only in the finally block and stays closed, and
\* nothing is published or received once it is closed.
C18_ShutdownOrder ==
    /\ [](/\ (~context_open => ~socket_open)
          /\ (~socket_open <=> pc \in {"term", "exited"})
          /\ (~context_open <=> pc = "exited"))
    /\ [][/\ (context_open /\ ~context_open' => ~socket_open)
          /\ (socket_open /\ ~socket_open' => pc = "close" /\ context_open')
          /\ (~socket_open =>
                 /\ ~socket_open' /\ hist' = hist /\ sent' = sent
                 /\ message_count' = message_count /\ files' = files)]_vars

C18_Witness ==
    /\ program = "producer" /\ pc = "term" /\ why = "interrupt"
    /\ ~socket_open /\ context_open /\ Len(sent) = 2

====
